---------------------------- MODULE Spec2Model ----------------------------
(***************************************************************************)
(* A model of konflux-ci/renovate-log-analyzer: the log scan of            *)
(* pkg/doctor (ProcessLogFile, parseLogLine, the selector checks, the      *)
(* report and the severity digest) and the message summarizer              *)
(* (extractUsefulError / processLongMessage).                              *)
(*                                                                         *)
(* Go strings are TLA+ strings; a character is read with SubSeq(s, i, i).  *)
(* Every string function of the Go standard library the code calls         *)
(* (strings.Split, strings.TrimSpace, strings.Contains, strings.Join,      *)
(* the regular expressions, fmt's verbs) is computed character by          *)
(* character on the inputs the model draws, which are ASCII.               *)
(***************************************************************************)
EXTENDS Integers, Sequences, FiniteSets, TLC

VARIABLES
    \* ---- one call of extractUsefulError (pkg/doctor/checks.go) ----
    fullMessage,     \* the argument fullMessage
    maxOutputLines,  \* the argument maxOutputLines
    summary,         \* what the call left behind: see Summarize
    \* ---- one call of parseLogLine ----
    rawLine,         \* the argument line, as encoding/json reads it
    parsed,          \* what the call returned
    \* ---- one call of ProcessLogFile ----
    pc,              \* "open", "scanning" (in the loop of line 309),
                     \* "returned", "panicked"; "idle" when not exercised
    lineCount,       \* the local lineCount
    errorsMap,       \* the local errorsMap: formatted message -> count
    fatalMap,        \* the local fatalMap
    report,          \* the SimpleReport
    ctxDone,         \* whether ctx has been cancelled
    result,          \* the returned digest and error ("" for nil)
    consumed,        \* the lines the loop has processed so far, in order
    calls,           \* for each of them, the check functions invoked on it,
                     \* in order (bookkeeping only)
    cancelledAt,     \* under StreamSpec, lineCount when ctx was cancelled;
                     \* -1 otherwise (bookkeeping only)
    \* ---- one execution of run (cmd/log-analyzer/main.go) ----
    env,             \* the environment variables NAMESPACE and KITE_API_URL
    runPc,           \* the statement run is at; "idle" when not exercised
    trace,           \* what run has done so far: the call of ProcessLogFile
                     \* and the HTTP requests, in order
    runErr           \* the error run returned ("" for nil)

sumVars == <<fullMessage, maxOutputLines, summary>>

parseVars == <<rawLine, parsed>>

scanVars == <<pc, lineCount, errorsMap, fatalMap, report, ctxDone, result, consumed, calls,
              cancelledAt>>

runVars == <<env, runPc, trace, runErr>>

vars == <<fullMessage, maxOutputLines, summary, rawLine, parsed,
          pc, lineCount, errorsMap, fatalMap, report, ctxDone, result, consumed, calls,
          cancelledAt, env, runPc, trace, runErr>>

\* the values of the variables of a part of the model that is not exercised
NoSummary == [called |-> FALSE]
SumIdle == fullMessage = "" /\ maxOutputLines = 0 /\ summary = NoSummary

NotParsed == [called |-> FALSE]
ParseIdle == rawLine = [json |-> FALSE] /\ parsed = NotParsed

\* via (bookkeeping only): the return statement taken
NoResult == [digest |-> "", err |-> "", via |-> ""]
ScanIdle ==
    /\ pc = "idle"
    /\ lineCount = 0
    /\ errorsMap = <<>>
    /\ fatalMap = <<>>
    /\ report = [Errors |-> <<>>, Warnings |-> <<>>, Infos |-> <<>>, log |-> <<>>]
    /\ ctxDone = FALSE
    /\ result = NoResult
    /\ consumed = <<>>
    /\ calls = <<>>
    /\ cancelledAt = -1

NoEnv == [NAMESPACE |-> "", KITE_API_URL |-> ""]
RunIdle == env = NoEnv /\ runPc = "idle" /\ trace = <<>> /\ runErr = ""

(***************************************************************************)
(* Bounds of the model.                                                    *)
(***************************************************************************)
\* lines of a message drawn over the full line alphabet
MaxShortLines == 3
\* lines of a message drawn over the three-letter alphabet (symbol-only,
\* noise, critical)
MaxMidLines == 5
\* lines of a message drawn over the two-letter alphabet (noise, critical)
MaxLongLines == 10
\* largest line budget handed to the summarizer
MaxBudget == 6
\* lines of a log file
MaxFileLines == 3
\* calls made on a report
MaxReportCalls == 5
\* lines of the long log file
MaxStreamLines == 101

(***************************************************************************)
(* Strings.                                                                *)
(***************************************************************************)
Char(s, i) == SubSeq(s, i, i)

\* unicode.IsSpace, restricted to ASCII
IsSpace(c) == c \in {" ", "\t", "\n", "\r", "\f"}

RECURSIVE TrimLeft(_)
TrimLeft(s) ==
    IF s # "" /\ IsSpace(Char(s, 1)) THEN TrimLeft(SubSeq(s, 2, Len(s))) ELSE s

RECURSIVE TrimRight(_)
TrimRight(s) ==
    IF s # "" /\ IsSpace(Char(s, Len(s))) THEN TrimRight(SubSeq(s, 1, Len(s) - 1)) ELSE s

\* strings.TrimSpace
TrimSpace(s) == TrimRight(TrimLeft(s))

\* strings.Contains
Contains(s, sub) ==
    \E i \in 0..(Len(s) - Len(sub)) : SubSeq(s, i + 1, i + Len(sub)) = sub

\* strings.HasPrefix (used for the anchored regular expressions)
HasPrefix(s, p) == Len(s) >= Len(p) /\ SubSeq(s, 1, Len(p)) = p

\* the position of the first "\n" of s at or after from, 0 when there is none
NewlineFrom(s, from) ==
    LET nl == {i \in from..Len(s) : Char(s, i) = "\n"}
    IN  IF nl = {} THEN 0 ELSE CHOOSE i \in nl : \A j \in nl : i <= j

\* strings.Split(s, "\n"): the pieces between the newlines, at least one
RECURSIVE SplitFrom(_, _)
SplitFrom(s, from) ==
    LET nl == NewlineFrom(s, from)
    IN  IF nl = 0 THEN <<SubSeq(s, from, Len(s))>>
        ELSE <<SubSeq(s, from, nl - 1)>> \o SplitFrom(s, nl + 1)

Split(s) == SplitFrom(s, 1)

\* strings.Join
RECURSIVE Join(_, _)
Join(elems, sep) ==
    IF Len(elems) = 0 THEN ""
    ELSE IF Len(elems) = 1 THEN elems[1]
    ELSE elems[1] \o sep \o Join(Tail(elems), sep)

Digit(d) == SubSeq("0123456789", d + 1, d + 1)

\* fmt's %d of a non-negative int
RECURSIVE IntToStr(_)
IntToStr(n) == IF n < 10 THEN Digit(n) ELSE IntToStr(n \div 10) \o Digit(n % 10)

UpperLetters == "ABCDEFGHIJKLMNOPQRSTUVWXYZ"
LowerLetters == "abcdefghijklmnopqrstuvwxyz"
Digits == "0123456789"

CharsOf(s) == {Char(s, k) : k \in 1..Len(s)}

UpperSet == CharsOf(UpperLetters)

LowerOf == [c \in UpperSet |-> Char(LowerLetters, CHOOSE k \in 1..26 : Char(UpperLetters, k) = c)]

LowerChar(c) == IF c \in UpperSet THEN LowerOf[c] ELSE c

\* the (?i) flag of the regular expressions: both sides compared in lower case
RECURSIVE ToLower(_)
ToLower(s) ==
    IF Len(s) = 0 THEN ""
    ELSE IF Len(s) = 1 THEN LowerChar(s)
    ELSE LET h == Len(s) \div 2
         IN  ToLower(SubSeq(s, 1, h)) \o ToLower(SubSeq(s, h + 1, Len(s)))

\* \w of RE2: [0-9A-Za-z_]
WordChars == CharsOf(Digits) \cup UpperSet \cup CharsOf(LowerLetters) \cup {"_"}

IsWordChar(c) == c \in WordChars

\* ^\s* : the subject with its leading \s run removed
SkipSpace(s) == TrimLeft(s)

(***************************************************************************)
(* The critical-line classifier (criticalPatterns, isCriticalLine) and     *)
(* the symbol-only pattern of processLongMessage.                          *)
(***************************************************************************)
\* (?i)^\s*Command failed:
patCommandFailed(line) == HasPrefix(ToLower(SkipSpace(line)), "command failed:")

\* (?i)^\s*(Error|FATAL|CRITICAL)\b   (\b: no word character follows the word)
patErrorWord(line) ==
    LET t == ToLower(SkipSpace(line))
    IN  \E w \in {"error", "fatal", "critical"} :
            /\ HasPrefix(t, w)
            /\ (Len(t) = Len(w) \/ ~IsWordChar(Char(t, Len(w) + 1)))

\* (?i)^\s*Caused by:
patCausedBy(line) == HasPrefix(ToLower(SkipSpace(line)), "caused by:")

\* (?i)^\s*[\w.]+Error:   (one or more of [\w.], then "Error:")
patDottedError(line) ==
    LET t == SkipSpace(line)
    IN  \E k \in 1..Len(t) :
            /\ \A j \in 1..k : IsWordChar(Char(t, j)) \/ Char(t, j) = "."
            /\ k + 6 <= Len(t)
            /\ ToLower(SubSeq(t, k + 1, k + 6)) = "error:"

\* the unanchored patterns
patAnywhere(line) ==
    LET t == ToLower(line)
    IN  \E w \in {"permission denied", "failed", "exception",
                  "could not connect", "timed out"} : Contains(t, w)

isCriticalLine(line) ==
    \/ patCommandFailed(line)
    \/ patErrorWord(line)
    \/ patCausedBy(line)
    \/ patDottedError(line)
    \/ patAnywhere(line)

\* ^\s*[~^=]+\s*$
symbolPattern(line) ==
    LET t == TrimSpace(line)
    IN  /\ t # ""
        /\ \A j \in 1..Len(t) : Char(t, j) \in {"~", "^", "="}

(***************************************************************************)
(* processLongMessage: the walk over lines[1:].  The state of the walk:    *)
(*   usefulLines, contextBuffer, cutLinesCount   the locals of the code    *)
(*   origin, ctxOrigin   for each string of usefulLines / contextBuffer    *)
(*                       the index of the input line it was taken from     *)
(*                       (-1 for a placeholder); bookkeeping only          *)
(*   exit                how the loop ended: "end" (the final-line case),  *)
(*                       "cutoff" (the length check), "loop" (the range    *)
(*                       was exhausted); bookkeeping only                  *)
(*   stop                the index i at which the loop ended by a break,   *)
(*                       0 when the range was exhausted; bookkeeping only  *)
(* i is the adjusted index of the code (line 89): lines[i] of the code is  *)
(* lines[i + 1] here.                                                      *)
(***************************************************************************)
Placeholder(omittedLines) == "[... " \o IntToStr(omittedLines) \o " lines omitted ...]"

\* lines 98-101, 111-113, 138-141: the placeholder is appended when positive
WithPlaceholder(st, omittedLines) ==
    IF omittedLines > 0
    THEN [st EXCEPT !.usefulLines = Append(@, Placeholder(omittedLines)),
                    !.origin = Append(@, -1)]
    ELSE st

Emit(st, text, at) ==
    [st EXCEPT !.usefulLines = Append(@, text), !.origin = Append(@, at)]

EmitContext(st) ==
    [st EXCEPT !.usefulLines = @ \o st.contextBuffer, !.origin = @ \o st.ctxOrigin]

\* lines 116-131: one of the last three lines, dropped if empty or symbol-only
EmitTail(st, lines, at) ==
    LET t == TrimSpace(lines[at + 1])
    IN  IF t # "" /\ ~symbolPattern(t) THEN Emit(st, t, at) ELSE st

\* lines 97-106
AtFinalLine(st, trimmedLine, i) ==
    LET a == WithPlaceholder(st, st.cutLinesCount - Len(st.contextBuffer))
        b == Emit(EmitContext(a), trimmedLine, i)
    IN  [b EXCEPT !.exit = "end", !.stop = i]

\* AtCutoff with the last three lines appended wherever the walk stopped
AtCutoff_AlwaysLastThree(st, lines, i) ==
    LET n == Len(lines)
        a == WithPlaceholder(st, st.cutLinesCount + n - i - 2)
        b == EmitTail(a, lines, n - 3)
        c == EmitTail(b, lines, n - 2)
        d == EmitTail(c, lines, n - 1)
    IN  [d EXCEPT !.exit = "cutoff", !.stop = i]

\* lines 109-133
AtCutoff(st, lines, i) ==
    LET n == Len(lines)
        a == WithPlaceholder(st, st.cutLinesCount + n - i - 2)
        b == IF i <= n - 3 THEN EmitTail(a, lines, n - 3) ELSE a
        c == IF i <= n - 2 THEN EmitTail(b, lines, n - 2) ELSE b
        d == EmitTail(c, lines, n - 1)
    IN  [d EXCEPT !.exit = "cutoff", !.stop = i]

\* AtCriticalLine without the reset of cutLinesCount (line 142)
AtCriticalLine_NoReset(st, trimmedLine, i) ==
    LET a == WithPlaceholder(st, st.cutLinesCount - Len(st.contextBuffer))
        b == Emit(EmitContext(a), trimmedLine, i)
    IN  [b EXCEPT !.contextBuffer = <<>>, !.ctxOrigin = <<>>]

\* lines 136-146
AtCriticalLine(st, trimmedLine, i) ==
    LET a == WithPlaceholder(st, st.cutLinesCount - Len(st.contextBuffer))
        b == Emit(EmitContext(a), trimmedLine, i)
    IN  [b EXCEPT !.cutLinesCount = 0, !.contextBuffer = <<>>, !.ctxOrigin = <<>>]

\* AtNoiseLine with a context buffer of three lines
AtNoiseLine_BufferOfThree(st, trimmedLine, i) ==
    LET full == Len(st.contextBuffer) >= 3
    IN  [st EXCEPT !.cutLinesCount = @ + 1,
                   !.contextBuffer = Append(IF full THEN Tail(@) ELSE @, trimmedLine),
                   !.ctxOrigin = Append(IF full THEN Tail(@) ELSE @, i)]

\* lines 148-153
AtNoiseLine(st, trimmedLine, i) ==
    LET full == Len(st.contextBuffer) >= 2
    IN  [st EXCEPT !.cutLinesCount = @ + 1,
                   !.contextBuffer = Append(IF full THEN Tail(@) ELSE @, trimmedLine),
                   !.ctxOrigin = Append(IF full THEN Tail(@) ELSE @, i)]

RECURSIVE Walk(_, _, _, _)
Walk(lines, maxLines, i, st) ==
    IF i > Len(lines) - 1 THEN st
    ELSE LET trimmedLine == TrimSpace(lines[i + 1])
         IN  IF trimmedLine = "" \/ symbolPattern(trimmedLine)
             THEN Walk(lines, maxLines, i + 1, st)
             ELSE IF i = Len(lines) - 1
             THEN AtFinalLine(st, trimmedLine, i)
             ELSE IF Len(st.usefulLines) >= maxLines
             THEN AtCutoff(st, lines, i)
             ELSE IF isCriticalLine(trimmedLine)
             THEN Walk(lines, maxLines, i + 1, AtCriticalLine(st, trimmedLine, i))
             ELSE Walk(lines, maxLines, i + 1, AtNoiseLine(st, trimmedLine, i))

\* lines 80-83, 88, 157: the state the loop starts from and the state it ends in
processLongMessageWalk(lines, maxLines) ==
    Walk(lines, maxLines, 1,
         [usefulLines |-> <<TrimSpace(lines[1])>>, origin |-> <<0>>,
          contextBuffer |-> <<>>, ctxOrigin |-> <<>>,
          cutLinesCount |-> 0, exit |-> "loop", stop |-> 0])

processLongMessage(lines, maxLines) ==
    Join(processLongMessageWalk(lines, maxLines).usefulLines, "\n")

\* lines 61-68: the split lines, less one leading and one trailing empty line
StrippedLines(msg) ==
    LET l0 == Split(msg)
        l1 == IF l0[1] = "" THEN Tail(l0) ELSE l0
    IN  IF l1[Len(l1)] = "" THEN SubSeq(l1, 1, Len(l1) - 1) ELSE l1

\* extractUsefulError with a fast path that trims every line on its own
extractUsefulError_TrimsEachLine(msg, maxLines) ==
    IF msg = "" THEN ""
    ELSE LET lines == StrippedLines(msg)
         IN  IF Len(lines) <= maxLines
             THEN Join([i \in 1..Len(lines) |-> TrimSpace(lines[i])], "\n")
             ELSE processLongMessage(lines, maxLines)

extractUsefulError(msg, maxLines) ==
    IF msg = "" THEN ""
    ELSE LET lines == StrippedLines(msg)
         IN  IF Len(lines) <= maxLines
             THEN TrimSpace(msg)
             ELSE processLongMessage(lines, maxLines)

\* the output of a failed command, as the err.message of a "rawExec err"
\* record carries it
LongExecMessage ==
    "Command failed: rpm-lockfile-prototype rpms.in.yaml\n"
    \o "Traceback (most recent call last):\n"
    \o "  File cli.py, line 12, in main\n"
    \o "    run(args)\n"
    \o "    ~~~^^^^^^\n"
    \o "  File lock.py, line 40, in run\n"
    \o "    load(path)\n"
    \o "  File lock.py, line 7, in load\n"
    \o "FileNotFoundError: [Errno 2] No such file or directory: 'rpms.in.yaml'\n"
    \o "\n"
    \o "Error: Failed to download metadata for repo 'ubi-9'\n"

\* Default version with maxOutputLines=8
DefaultMaxOutputLines == 8

\* the result for the long message above, computed once
LongExecSummary == extractUsefulError(LongExecMessage, DefaultMaxOutputLines)

extractUsefulErrorDefault(msg) ==
    IF msg = LongExecMessage THEN LongExecSummary
    ELSE extractUsefulError(msg, DefaultMaxOutputLines)


(***************************************************************************)
(* JSON values as encoding/json decodes them into `any`:                   *)
(*   JNull         nil (a JSON null, and what a map returns for a key it   *)
(*                 does not hold)                                          *)
(*   JStr(s)       string                                                  *)
(*   JNum(n10)     float64, the number n10 / 10 (one decimal is kept, so   *)
(*                 that 10.5 and 50.9 can be told from 10 and 50)          *)
(*   JBool(b)      bool                                                    *)
(*   JArr(a)       []interface{}                                           *)
(*   JObj(m)       map[string]interface{}, m a function on its keys        *)
(***************************************************************************)
JNull == [t |-> "null"]
JStr(s) == [t |-> "string", s |-> s]
JNum(n10) == [t |-> "number", n10 |-> n10]
JBool(b) == [t |-> "bool", b |-> b]
JArr(a) == [t |-> "array", a |-> a]
JObj(m) == [t |-> "object", m |-> m]

\* m[k] of a Go map
Get(m, k) == IF k \in DOMAIN m THEN m[k] ELSE JNull

\* v.(string), v.(float64), v.(map[string]interface{}), v.([]interface{})
IsString(v) == v.t = "string"
IsFloat(v) == v.t = "number"
IsMap(v) == v.t = "object"
IsSlice(v) == v.t = "array"

\* int(levelFloat): the conversion truncates toward zero
IntOfFloat(n10) == IF n10 >= 0 THEN n10 \div 10 ELSE -((-n10) \div 10)

\* Renovate's numerical levels to standard string names
renovateLogLevels == [k \in {10, 20, 30, 40, 50, 60} |->
    CASE k = 10 -> "TRACE" [] k = 20 -> "DEBUG" [] k = 30 -> "INFO"
      [] k = 40 -> "WARN" [] k = 50 -> "ERROR" [] k = 60 -> "FATAL"]

\* the keys of rawData kept in Extras (lines 395-397)
ExtraKeys == {"err", "errors", "errorMessage", "branch", "durationMs", "depName",
              "branchesInformation", "context", "packageFile", "currentValue",
              "previousNewValue", "thisNewValue", "oldConfig", "newConfig",
              "migratedConfig"}

\* lines 373-385: entry.Level
LevelOf(rawData) ==
    LET v == Get(rawData, "level")
    IN  IF ~IsFloat(v) THEN ""
        ELSE IF IntOfFloat(v.n10) \in DOMAIN renovateLogLevels
             THEN renovateLogLevels[IntOfFloat(v.n10)]
             ELSE ""

\* parseLogLine giving an ERROR record with no message for a line that does
\* not unmarshal
parseLogLine_UnparseableIsError(line) ==
    IF ~line.json \/ line.doc.t \notin {"object", "null"}
    THEN [err |-> FALSE, entry |-> [Level |-> "ERROR", Msg |-> "", Extras |-> <<>>]]
    ELSE LET rawData == IF line.doc.t = "object" THEN line.doc.m ELSE <<>>
             msg == Get(rawData, "msg")
         IN  [err |-> FALSE,
              entry |-> [Level  |-> LevelOf(rawData),
                         Msg    |-> IF IsString(msg) THEN msg.s ELSE "",
                         Extras |-> [k \in DOMAIN rawData \cap ExtraKeys |-> rawData[k]]]]

\* A line of the log as json.Unmarshal sees it: text that is no JSON
\* document ([json |-> FALSE]) or a document ([json |-> TRUE, doc |-> value]).
\* Unmarshal into a map[string]any succeeds for an object and for null
\* (which leaves the map nil) and fails for every other document.
parseLogLine(line) ==
    IF ~line.json \/ line.doc.t \notin {"object", "null"}
    THEN [err |-> TRUE, entry |-> [Level |-> "", Msg |-> "", Extras |-> <<>>]]
    ELSE LET rawData == IF line.doc.t = "object" THEN line.doc.m ELSE <<>>
             msg == Get(rawData, "msg")
         IN  [err |-> FALSE,
              entry |-> [Level  |-> LevelOf(rawData),
                         Msg    |-> IF IsString(msg) THEN msg.s ELSE "",
                         Extras |-> [k \in DOMAIN rawData \cap ExtraKeys |-> rawData[k]]]]

(***************************************************************************)
(* fmt's verbs on an `any`.  The values the model formats are strings,     *)
(* nil, bools and float64 numbers below 1e21 with at most one decimal.     *)
(***************************************************************************)
\* strconv.FormatFloat(f, 'g', -1, 64) for such a number
FmtFloat(n10) ==
    LET a == IF n10 < 0 THEN -n10 ELSE n10
    IN  (IF n10 < 0 THEN "-" ELSE "")
            \o IntToStr(a \div 10)
            \o (IF a % 10 = 0 THEN "" ELSE "." \o Digit(a % 10))

\* %v
FmtV(v) ==
    CASE v.t = "string" -> v.s
      [] v.t = "null"   -> "<nil>"
      [] v.t = "bool"   -> IF v.b THEN "true" ELSE "false"
      [] v.t = "number" -> FmtFloat(v.n10)

\* %s
FmtS(v) ==
    CASE v.t = "string" -> v.s
      [] v.t = "null"   -> "%!s(<nil>)"
      [] v.t = "bool"   -> "%!s(bool=" \o FmtV(v) \o ")"
      [] v.t = "number" -> "%!s(float64=" \o FmtFloat(v.n10) \o ")"

(***************************************************************************)
(* SimpleReport.  Errors, Warnings, Infos are the three lists of the Go    *)
(* struct; log records every call of Error / Warning / Info with the       *)
(* string it formatted, in call order (bookkeeping only).                  *)
(***************************************************************************)
EmptyReport == [Errors |-> <<>>, Warnings |-> <<>>, Infos |-> <<>>, log |-> <<>>]

\* the loop of formatSimpleMessage (lines 506-517), from index i (0-based)
RECURSIVE FormatFields(_, _)
FormatFields(fields, i) ==
    IF i >= Len(fields) THEN ""
    ELSE IF i + 1 < Len(fields)
         THEN LET key   == FmtV(fields[i + 1])
                  value == fields[i + 2]
              IN  (IF key = "Message"
                   THEN "\n" \o key \o ": " \o FmtV(value) \o "\n"
                   ELSE " | " \o key \o ": " \o FmtV(value))
                      \o FormatFields(fields, i + 2)
         ELSE FormatFields(fields, i + 2)

formatSimpleMessage(msg, fields) ==
    IF Len(fields) = 0 THEN msg ELSE msg \o FormatFields(fields, 0)

InSeq(x, seq) == \E k \in 1..Len(seq) : seq[k] = x

\* Error putting the new entry first
ReportError_Prepend(r, msg, fields) ==
    LET formatted == formatSimpleMessage(msg, fields)
    IN  [r EXCEPT !.Errors = <<formatted>> \o @,
                  !.log = Append(@, [method |-> "Error", formatted |-> formatted])]

ReportError(r, msg, fields) ==
    LET formatted == formatSimpleMessage(msg, fields)
    IN  [r EXCEPT !.Errors = Append(@, formatted),
                  !.log = Append(@, [method |-> "Error", formatted |-> formatted])]

\* Warning without the slices.Contains test
ReportWarning_NoDedup(r, msg, fields) ==
    LET formatted == formatSimpleMessage(msg, fields)
    IN  [r EXCEPT !.Warnings = Append(@, formatted),
                  !.log = Append(@, [method |-> "Warning", formatted |-> formatted])]

ReportWarning(r, msg, fields) ==
    LET formatted == formatSimpleMessage(msg, fields)
    IN  [r EXCEPT !.Warnings = IF InSeq(formatted, @) THEN @ ELSE Append(@, formatted),
                  !.log = Append(@, [method |-> "Warning", formatted |-> formatted])]

ReportInfo(r, msg, fields) ==
    LET formatted == formatSimpleMessage(msg, fields)
    IN  [r EXCEPT !.Infos = Append(@, formatted),
                  !.log = Append(@, [method |-> "Info", formatted |-> formatted])]

(***************************************************************************)
(* The check functions.  Each takes the entry and the report and gives     *)
(* [report, panicked]: the report as the function left it, and whether it  *)
(* ended in a run-time panic (a failed type assertion without ", ok").     *)
(***************************************************************************)
Done(r) == [report |-> r, panicked |-> FALSE]
Panic(r) == [report |-> r, panicked |-> TRUE]

prLimitReached(line, rpt) ==
    Done(ReportWarning(rpt, "PR limit reached - skipping PR creation", <<>>))

\* lines 186-190: the entries of errors that are objects, formatted
RECURSIVE ConfigErrors(_)
ConfigErrors(errors) ==
    IF Len(errors) = 0 THEN ""
    ELSE (IF IsMap(errors[1])
          THEN "\n" \o FmtS(Get(errors[1].m, "topic")) \o ": "
                    \o FmtS(Get(errors[1].m, "message"))
          ELSE "")
             \o ConfigErrors(Tail(errors))

renovateConfigErrors(line, rpt) ==
    LET errors == Get(line.Extras, "errors")
        joined == IF ~IsSlice(errors)
                  THEN "Unable to parse config errors"
                  ELSE ConfigErrors(errors.a)
    IN  Done(ReportError(rpt, "Found renovate config errors",
                         <<JStr("Errors"), JStr(joined)>>))

\* FileNotFoundError: \[Errno 2\] No such file or directory: '([\w\/\.\-]+)'
FileNotFoundPrefix == "FileNotFoundError: [Errno 2] No such file or directory: '"

PathChars == WordChars \cup {"/", ".", "-"}

\* the end of the run of path characters that starts at from
RECURSIVE PathRunEnd(_, _)
PathRunEnd(s, from) ==
    IF from <= Len(s) /\ Char(s, from) \in PathChars
    THEN PathRunEnd(s, from + 1)
    ELSE from - 1

\* the offsets at which the expression matches
FileNotFoundHits(s) ==
    {p \in 0..(Len(s) - Len(FileNotFoundPrefix)) :
        LET from == p + Len(FileNotFoundPrefix) + 1
            to   == PathRunEnd(s, from)
        IN  /\ SubSeq(s, p + 1, p + Len(FileNotFoundPrefix)) = FileNotFoundPrefix
            /\ to >= from
            /\ to + 1 <= Len(s)
            /\ Char(s, to + 1) = "'"}

\* FindStringSubmatch(message)[1] of the leftmost match
FileNotFoundPath(s) ==
    LET p    == CHOOSE h \in FileNotFoundHits(s) : \A g \in FileNotFoundHits(s) : h <= g
        from == p + Len(FileNotFoundPrefix) + 1
    IN  SubSeq(s, from, PathRunEnd(s, from))

rawExecError(line, rpt) ==
    LET err == Get(line.Extras, "err")
    IN  IF ~IsMap(err) THEN Done(rpt)
        ELSE LET errData == err.m
                 options == Get(errData, "options")
                 message == IF IsString(Get(errData, "message"))
                            THEN Get(errData, "message").s ELSE ""
                 fields0 == <<JStr("Branch"), Get(line.Extras, "branch"),
                              JStr("Duration"), Get(line.Extras, "durationMs")>>
                 fields1 == IF IsMap(options)
                            THEN fields0 \o <<JStr("Timeout"), Get(options.m, "timeout")>>
                            ELSE fields0
                 fields2 == IF Contains(message, "Failed to download metadata for repo")
                            THEN fields1 \o <<JStr("Hint"),
                                 JStr("Possible Red Hat subscription activation key issue")>>
                            ELSE fields1
                 fields3 == IF FileNotFoundHits(message) # {}
                            THEN fields2 \o <<JStr("Hint"),
                                 JStr("File not found: " \o FileNotFoundPath(message)
                                      \o ", check rpms.in.yaml configuration")>>
                            ELSE fields2
                 fields4 == fields3 \o <<JStr("Message"),
                                         JStr(extractUsefulErrorDefault(message))>>
             IN  Done(ReportError(rpt, "Error executing command", fields4))

\* line 237, over the commands
RECURSIVE FullTask(_, _)
FullTask(fullTask, commands) ==
    IF Len(commands) = 0 THEN fullTask
    ELSE FullTask(fullTask \o " " \o FmtS(commands[1]), Tail(commands))

\* line 236 asserts errData["task"].(map[string]interface{}) and
\* ["commands"].([]interface{}) without ", ok": each panics on another type
platformCommitError(line, rpt) ==
    LET err == Get(line.Extras, "err")
    IN  IF ~IsMap(err) THEN Done(rpt)
        ELSE LET errData    == err.m
                 errMessage == IF IsString(Get(errData, "message"))
                               THEN Get(errData, "message").s ELSE ""
                 task       == Get(errData, "task")
             IN  IF ~IsMap(task) THEN Panic(rpt)
                 ELSE IF ~IsSlice(Get(task.m, "commands")) THEN Panic(rpt)
                 ELSE Done(ReportError(rpt, line.Msg,
                          <<JStr("Branch"), Get(line.Extras, "branch"),
                            JStr("Message"), JStr(errMessage),
                            JStr("Task"), JStr(FullTask("", Get(task.m, "commands").a))>>))

\* Selectors after init(): selector -> check function
Selectors ==
    [sel \in {"Reached PR limit - skipping PR creation",
              "Found renovate config errors",
              "rawExec err",
              "Platform-native commit: unknown error"} |->
        CASE sel = "Reached PR limit - skipping PR creation" -> "prLimitReached"
          [] sel = "Found renovate config errors" -> "renovateConfigErrors"
          [] sel = "rawExec err" -> "rawExecError"
          [] sel = "Platform-native commit: unknown error" -> "platformCommitError"]

\* checkFunc(&entry, rpt)
CallCheck(checkFunc, line, rpt) ==
    CASE checkFunc = "prLimitReached" -> prLimitReached(line, rpt)
      [] checkFunc = "renovateConfigErrors" -> renovateConfigErrors(line, rpt)
      [] checkFunc = "rawExecError" -> rawExecError(line, rpt)
      [] checkFunc = "platformCommitError" -> platformCommitError(line, rpt)

(***************************************************************************)
(* The severity digest.                                                    *)
(***************************************************************************)
\* build a single error message from a log entry
buildErrorMessage(logEntry) ==
    LET err          == Get(logEntry.Extras, "err")
        errorMessage == Get(logEntry.Extras, "errorMessage")
    IN  IF IsMap(err) /\ IsString(Get(err.m, "message"))
        THEN logEntry.Msg \o ": " \o Get(err.m, "message").s
        ELSE IF IsString(errorMessage)
        THEN logEntry.Msg \o ": " \o errorMessage.s
        ELSE logEntry.Msg \o "\n"

\* map[key]++
Increment(m, key) ==
    IF key \in DOMAIN m THEN [m EXCEPT ![key] = @ + 1] ELSE m @@ (key :> 1)

\* the orders in which a range over a Go map with the keys S can run
Orders(S) ==
    {o \in [1..Cardinality(S) -> S] : \A a, b \in DOMAIN o : a # b => o[a] # o[b]}

\* lines 427-435 over the keys in the order the range yields them
RECURSIVE TotalCount(_, _)
TotalCount(logs, order) ==
    IF Len(order) = 0 THEN 0 ELSE logs[order[1]] + TotalCount(logs, Tail(order))

RECURSIVE UniqueMessages(_, _)
UniqueMessages(logs, order) ==
    IF Len(order) = 0 THEN <<>>
    ELSE <<IF logs[order[1]] > 1
           THEN IntToStr(logs[order[1]]) \o "x " \o order[1]
           ELSE order[1]>>
             \o UniqueMessages(logs, Tail(order))

\* create summary with counts for duplicates; order: the range's order
formatFailMsg(logs, logLevel, order) ==
    IF DOMAIN logs = {} THEN ""
    ELSE IntToStr(TotalCount(logs, order)) \o " " \o logLevel \o ": "
             \o Join(UniqueMessages(logs, order), "")

\* buildErrorMessageFromLogs with "||" for "&&" at line 409
buildErrorMessageFromLogs_Either(errs, fatals, errOrder, fatalOrder) ==
    LET errString   == formatFailMsg(errs, "ERROR", errOrder)
        fatalString == formatFailMsg(fatals, "FATAL", fatalOrder)
    IN  IF errString = "" \/ fatalString = "" THEN ""
        ELSE "Mintmaker finished with " \o errString \o fatalString

\* buildErrorMessageFromLogs with the FATAL part before the ERROR part
buildErrorMessageFromLogs_FatalFirst(errs, fatals, errOrder, fatalOrder) ==
    LET errString   == formatFailMsg(errs, "ERROR", errOrder)
        fatalString == formatFailMsg(fatals, "FATAL", fatalOrder)
    IN  IF errString = "" /\ fatalString = "" THEN ""
        ELSE "Mintmaker finished with " \o fatalString \o errString

buildErrorMessageFromLogs(errs, fatals, errOrder, fatalOrder) ==
    LET errString   == formatFailMsg(errs, "ERROR", errOrder)
        fatalString == formatFailMsg(fatals, "FATAL", fatalOrder)
    IN  IF errString = "" /\ fatalString = "" THEN ""
        ELSE "Mintmaker finished with " \o errString \o fatalString

(***************************************************************************)
(* ProcessLogFile.                                                         *)
(***************************************************************************)
\* the lines of the log files scanned
Line(doc) == [json |-> TRUE, doc |-> JObj(doc)]

LogLines ==
    {[json |-> FALSE],
     [json |-> TRUE, doc |-> JNull],
     Line([level |-> JNum(500), msg |-> JStr("network timeout")]),
     Line([level |-> JNum(600), msg |-> JStr("disk full")]),
     Line([level |-> JNum(500), msg |-> JStr("lookup"), err |-> JObj([message |-> JStr("boom")])]),
     Line([level |-> JNum(600), msg |-> JStr("disk full"), errorMessage |-> JStr("no space")]),
     Line([level |-> JNum(300), msg |-> JStr("Reached PR limit - skipping PR creation")]),
     Line([level |-> JNum(509), msg |-> JNum(70), name |-> JStr("x")]),
     Line([level |-> JNum(200), msg |-> JStr("rawExec err"),
           err |-> JObj([message |-> JStr(LongExecMessage),
                         options |-> JObj([timeout |-> JNum(9000)])]),
           branch |-> JStr("main"), durationMs |-> JNum(15005)]),
     Line([msg |-> JStr("Found renovate config errors after rawExec err"),
           errors |-> JArr(<<JObj([topic |-> JStr("Config"), message |-> JStr("bad")]),
                             JNum(50), JObj([topic |-> JStr("Rule")])>>),
           err |-> JObj([message |-> JStr("exit 1")])]),
     Line([level |-> JNum(700), msg |-> JStr("Found renovate config errors"),
           errors |-> JStr("none")]),
     Line([level |-> JNum(400), msg |-> JStr("Platform-native commit: unknown error"),
           err |-> JObj([message |-> JStr("denied"),
                         task |-> JObj([commands |-> JArr(<<JStr("git"), JStr("push")>>)])]),
           branch |-> JStr("main")]),
     Line([level |-> JNum(400),
           msg |-> JStr("Platform-native commit: unknown error. Reached PR limit - skipping PR creation"),
           err |-> JObj([message |-> JStr("denied")])])}

\* the test of lines 314 and 348 without the three lists of the report
NoFindings_TalliesOnly ==
    /\ DOMAIN errorsMap = {}
    /\ DOMAIN fatalMap = {}

\* lines 314 and 348: nothing has been found
NoFindings ==
    /\ DOMAIN errorsMap = {}
    /\ DOMAIN fatalMap = {}
    /\ Len(report.Errors) = 0
    /\ Len(report.Warnings) = 0
    /\ Len(report.Infos) = 0

\* the digests buildErrorMessageFromLogs can return for the two maps
Digests ==
    {buildErrorMessageFromLogs(errorsMap, fatalMap, eo, fo) :
        eo \in Orders(DOMAIN errorsMap), fo \in Orders(DOMAIN fatalMap)}

\* lines 340-344 over the selectors in the order the range yields them;
\* st: the report, the check functions called so far, whether one panicked
RECURSIVE RunChecks(_, _, _)
RunChecks(order, entry, st) ==
    IF Len(order) = 0 \/ st.panicked THEN st
    ELSE LET selector == order[1]
         IN  IF Contains(entry.Msg, selector)
             THEN LET r == CallCheck(Selectors[selector], entry, st.report)
                  IN  RunChecks(Tail(order), entry,
                                [report   |-> r.report,
                                 called   |-> Append(st.called, Selectors[selector]),
                                 panicked |-> r.panicked])
             ELSE RunChecks(Tail(order), entry, st)

\* the switch of line 330 with a record of no level counted as an ERROR
Tally_UnsetIsError(entry) ==
    /\ errorsMap' = IF entry.Level \in {"ERROR", ""}
                    THEN Increment(errorsMap, buildErrorMessage(entry)) ELSE errorsMap
    /\ fatalMap' = IF entry.Level = "FATAL"
                   THEN Increment(fatalMap, buildErrorMessage(entry)) ELSE fatalMap

\* lines 330-337
Tally(entry) ==
    /\ errorsMap' = IF entry.Level = "ERROR"
                    THEN Increment(errorsMap, buildErrorMessage(entry)) ELSE errorsMap
    /\ fatalMap' = IF entry.Level = "FATAL"
                   THEN Increment(fatalMap, buildErrorMessage(entry)) ELSE fatalMap

ScanInit ==
    /\ pc = "open"
    /\ lineCount = 0
    /\ errorsMap = <<>>
    /\ fatalMap = <<>>
    /\ report = EmptyReport
    /\ ctxDone = FALSE
    /\ result = NoResult
    /\ consumed = <<>>
    /\ calls = <<>>
    /\ cancelledAt = -1
    /\ SumIdle
    /\ ParseIdle
    /\ RunIdle

\* lines 290-299
OpenFile ==
    /\ pc = "open"
    /\ \E outcome \in {"ok", "log file not found", "failed to open log file"} :
          IF outcome = "ok"
          THEN pc' = "scanning" /\ UNCHANGED result
          ELSE pc' = "returned" /\ result' = [digest |-> "", err |-> outcome, via |-> "open"]
    /\ UNCHANGED <<lineCount, errorsMap, fatalMap, report, ctxDone, consumed, calls, cancelledAt>>
    /\ UNCHANGED <<sumVars, parseVars, runVars>>

\* SIGINT or SIGTERM arrives (signal.NotifyContext in run).  The loop reads
\* ctx only at the check of line 313, so a signal during an iteration acts
\* as one that arrives right after it.  mark: what the bookkeeping keeps of
\* the moment.
CancelContextMarked(mark) ==
    /\ pc \in {"open", "scanning"}
    /\ ~ctxDone
    /\ ctxDone' = TRUE
    /\ cancelledAt' = mark
    /\ UNCHANGED <<pc, lineCount, errorsMap, fatalMap, report, result, consumed, calls>>
    /\ UNCHANGED <<sumVars, parseVars, runVars>>

CancelContext == CancelContextMarked(-1)

\* the period of the cancellation check of line 311
CancelCheckEvery == 100

\* the same check made every 200 lines
CancellationObserved_Every200 == lineCount % 200 = 0 /\ ctxDone

\* lines 311-313: the check is due and ctx is done
CancellationObserved == lineCount % CancelCheckEvery = 0 /\ ctxDone

\* lines 309-320: a line was read, lineCount is a multiple of 100, ctx is
\* done; more: whether scanner.Scan() has a line to give
ReturnCancelledIf(more) ==
    /\ pc = "scanning"
    /\ more
    /\ CancellationObserved
    /\ pc' = "returned"
    /\ IF NoFindings
       THEN result' = [digest |-> "", err |-> "log processing cancelled", via |-> "cancel"]
       ELSE \E d \in Digests : result' = [digest |-> d, err |-> "", via |-> "cancel"]
    /\ UNCHANGED <<lineCount, errorsMap, fatalMap, report, ctxDone, consumed, calls, cancelledAt>>
    /\ UNCHANGED <<sumVars, parseVars, runVars>>

ReturnCancelled == ReturnCancelledIf(Len(consumed) < MaxFileLines)

\* lines 309-345: one iteration of the loop that gets past the cancellation
\* check; lines: what scanner.Text() can be
ScanLineOf(lines) ==
    /\ pc = "scanning"
    /\ ~CancellationObserved
    /\ \E line \in lines :
          LET p == parseLogLine(line)
          IN  /\ lineCount' = lineCount + 1
              /\ consumed' = Append(consumed, line)
              /\ IF p.err
                 THEN /\ calls' = Append(calls, <<>>)
                      /\ UNCHANGED <<pc, errorsMap, fatalMap, report>>
                 ELSE /\ Tally(p.entry)
                      /\ \E order \in Orders({sel \in DOMAIN Selectors :
                                                 Contains(p.entry.Msg, sel)}) :
                            LET run == RunChecks(order, p.entry,
                                           [report |-> report, called |-> <<>>,
                                            panicked |-> FALSE])
                            IN  /\ report' = run.report
                                /\ calls' = Append(calls, run.called)
                                /\ pc' = IF run.panicked THEN "panicked" ELSE "scanning"
    /\ UNCHANGED <<ctxDone, result, cancelledAt>>
    /\ UNCHANGED <<sumVars, parseVars, runVars>>

ScanLine == Len(consumed) < MaxFileLines /\ ScanLineOf(LogLines)

\* lines 347-354: scanner.Scan() is false; readErr: scanner.Err() is not nil
EndOfInput ==
    /\ pc = "scanning"
    /\ \E readErr \in BOOLEAN :
          LET via == IF readErr THEN "readerr" ELSE "eof"
          IN  IF readErr /\ NoFindings
              THEN result' = [digest |-> "", err |-> "error reading log file", via |-> via]
              ELSE \E d \in Digests : result' = [digest |-> d, err |-> "", via |-> via]
    /\ pc' = "returned"
    /\ UNCHANGED <<lineCount, errorsMap, fatalMap, report, ctxDone, consumed, calls, cancelledAt>>
    /\ UNCHANGED <<sumVars, parseVars, runVars>>

Next == OpenFile \/ CancelContext \/ ReturnCancelled \/ ScanLine \/ EndOfInput

Spec == ScanInit /\ [][Next]_vars

(***************************************************************************)
(* One call of the summarizer on a drawn message.                          *)
(***************************************************************************)
\* the lines a message is built from: empty, blank, symbol-only, padded
\* noise, critical
LineAlphabet == {"", " ", "~=", " ok ", "IOError: x"}
\* the lines of the middle-sized messages: symbol-only, noise, critical
MidAlphabet == {"^~", "  at g", "Caused by: y"}
\* the lines of the longest messages: noise and critical
LongAlphabet == {"at f", "failed"}

SeqsUpTo(S, n) == UNION {[1..k -> S] : k \in 0..n}

Messages ==
    {Join(ls, "\n") : ls \in SeqsUpTo(LineAlphabet, MaxShortLines)}
    \cup {Join(ls, "\n") : ls \in SeqsUpTo(MidAlphabet, MaxMidLines)}
    \cup {Join(ls, "\n") : ls \in SeqsUpTo(LongAlphabet, MaxLongLines)}

\* what a call leaves behind: the returned string, and for the long path
\* the final state of the walk
Summarize(msg, maxLines) ==
    LET lines == IF msg = "" THEN <<>> ELSE StrippedLines(msg)
        long  == msg # "" /\ Len(lines) > maxLines
    IN  [called |-> TRUE,
         out   |-> extractUsefulError(msg, maxLines),
         lines |-> lines,
         long  |-> long,
         walk  |-> IF long THEN processLongMessageWalk(lines, maxLines) ELSE <<>>]

SumInit ==
    /\ fullMessage \in Messages
    /\ maxOutputLines \in 0..MaxBudget
    /\ summary = NoSummary
    /\ ParseIdle
    /\ ScanIdle
    /\ RunIdle

CallExtractUsefulError ==
    /\ ~summary.called
    /\ summary' = Summarize(fullMessage, maxOutputLines)
    /\ UNCHANGED <<fullMessage, maxOutputLines>>
    /\ UNCHANGED <<parseVars, scanVars, runVars>>

SumNext == CallExtractUsefulError

SumSpec == SumInit /\ [][SumNext]_vars


(***************************************************************************)
(* Properties of the summarizer, checked under SumSpec.                    *)
(***************************************************************************)
\* the number of "\n" in s
RECURSIVE CountNewlines(_, _)
CountNewlines(s, from) ==
    LET nl == NewlineFrom(s, from)
    IN  IF nl = 0 THEN 0 ELSE 1 + CountNewlines(s, nl + 1)

\* the lines of a non-empty message, one leading and one trailing fully-empty
\* line not counted
MessageLineCount(msg) ==
    CountNewlines(msg, 1) + 1
        - (IF Char(msg, 1) = "\n" THEN 1 ELSE 0)
        - (IF Char(msg, Len(msg)) = "\n" THEN 1 ELSE 0)

AllSpace(s) == \A j \in 1..Len(s) : IsSpace(Char(s, j))

\* out is msg with its leading and trailing whitespace removed and nothing else
IsWhitespaceTrimOf(out, msg) ==
    /\ out = "" \/ (~IsSpace(Char(out, 1)) /\ ~IsSpace(Char(out, Len(out))))
    /\ \E a \in 0..(Len(msg) - Len(out)) :
          /\ SubSeq(msg, a + 1, a + Len(out)) = out
          /\ AllSpace(SubSeq(msg, 1, a))
          /\ AllSpace(SubSeq(msg, a + Len(out) + 1, Len(msg)))

\* C6: a message of at most maxOutputLines lines (one leading and one
\* trailing fully-empty line not counted) is returned as the whitespace-
\* trimmed message, nothing else changed; the empty message gives "".
C6_ShortMessageIsTrimmed ==
    summary.called =>
        /\ fullMessage = "" => summary.out = ""
        /\ (fullMessage # "" /\ MessageLineCount(fullMessage) <= maxOutputLines)
              => IsWhitespaceTrimOf(summary.out, fullMessage)

\* C6's case: a short message of several lines with padded inner lines,
\* whose result differs from the message only at its two ends
C6_Witness ==
    /\ summary.called
    /\ fullMessage # ""
    /\ MessageLineCount(fullMessage) <= maxOutputLines
    /\ MessageLineCount(fullMessage) >= 3
    /\ summary.out # fullMessage
    /\ Contains(summary.out, " \n ")

\* the stripped lines of the call, the walk's output and where it came from
InLines == summary.lines
OutLines == summary.walk.usefulLines
Origin == summary.walk.origin
LongCall == summary.called /\ summary.long

\* for each line a message is built from: whether it is empty or symbol-only
\* once trimmed, and whether it is critical once trimmed
AlphabetLines == LineAlphabet \cup MidAlphabet \cup LongAlphabet
SkippedLine ==
    [l \in AlphabetLines |-> LET t == TrimSpace(l) IN t = "" \/ symbolPattern(t)]
CriticalLine == [l \in AlphabetLines |-> isCriticalLine(TrimSpace(l))]

\* line i (the code's index) of the input is empty or symbol-only once trimmed
Skipped(i) == SkippedLine[InLines[i + 1]]

Emitted(i) == \E p \in 1..Len(Origin) : Origin[p] = i

HasPlaceholder == \E p \in 1..Len(Origin) : Origin[p] = -1

\* C7: the output of a long message starts with the trimmed first line, and
\* the final line of the input is in the output or a placeholder stands for
\* it, whatever the final line is.
C7_FirstAndFinalLine ==
    LongCall =>
        /\ HasPrefix(summary.out, TrimSpace(InLines[1]))
        /\ Emitted(Len(InLines) - 1) \/ HasPlaceholder

\* the number of lines of the returned string
OutLineCount == IF summary.out = "" THEN 0 ELSE CountNewlines(summary.out, 1) + 1

\* C8 as stated: with a budget of at least 1, the output has at most
\* maxOutputLines + 2 lines.
C8_AtMostBudgetPlusTwo ==
    (summary.called /\ maxOutputLines >= 1) => OutLineCount <= maxOutputLines + 2

\* C8 amended: with a budget of at least 1, the output has at most
\* maxOutputLines + 7 lines (a flush at maxOutputLines - 1 emitted lines adds
\* a placeholder, two context lines and the critical line; the cutoff or the
\* final line then adds a placeholder and three more).
C8_AtMostBudgetPlusSeven ==
    (summary.called /\ maxOutputLines >= 1) => OutLineCount <= maxOutputLines + 7

\* C8's case: the bound is met
C8_Witness ==
    /\ LongCall
    /\ maxOutputLines >= 1
    /\ summary.walk.exit = "cutoff"
    /\ OutLineCount = maxOutputLines + 7

IsCriticalAt(i) == ~Skipped(i) /\ CriticalLine[InLines[i + 1]]

\* the last critical line before line a, or the first line
PrevCritical(a) ==
    LET before == {0} \cup {j \in 1..(a - 1) : IsCriticalAt(j)}
    IN  CHOOSE m \in before : \A j \in before : j <= m

\* the non-critical, non-empty, non-symbol lines since then
Gap(a) == {j \in (PrevCritical(a) + 1)..(a - 1) : ~Skipped(j)}

\* the (at most two) most recent of them
RecentTwo(a) == {j \in Gap(a) : Cardinality({k \in Gap(a) : k > j}) < 2}

\* In the output, line a stands at p, directly after its context (the most
\* recent lines of its gap, in input order), and a placeholder stands before
\* the context exactly when the gap holds more lines, with their number.
BlockAt(a, p) ==
    LET c == Cardinality(RecentTwo(a))
        g == Cardinality(Gap(a))
    IN  /\ p - c - 1 >= 1
        /\ Origin[p] = a
        /\ OutLines[p] = TrimSpace(InLines[a + 1])
        /\ \A q \in (p - c)..(p - 1) :
              /\ Origin[q] \in RecentTwo(a)
              /\ OutLines[q] = TrimSpace(InLines[Origin[q] + 1])
              /\ q > p - c => Origin[q - 1] < Origin[q]
        /\ IF g > c
           THEN Origin[p - c - 1] = -1 /\ OutLines[p - c - 1] = Placeholder(g - c)
           ELSE Origin[p - c - 1] # -1

\* the lines the walk flushes at: a critical line, or the final line
FlushLine(a) == ~Skipped(a) /\ (IsCriticalAt(a) \/ a = Len(InLines) - 1)

\* C9: when the length cutoff does not trigger, every critical line is
\* emitted, directly preceded by the most recent (at most two) non-critical,
\* non-empty, non-symbol lines since the previous critical line, and a
\* placeholder's N is exactly the number of such lines since the previous
\* critical line (or the start) that are not emitted as context.
C9_CriticalLinesAndExactOmissions ==
    (LongCall /\ summary.walk.exit # "cutoff") =>
        /\ \A a \in 1..(Len(InLines) - 1) :
              FlushLine(a) => \E p \in 1..Len(Origin) : BlockAt(a, p)
        /\ \A q \in 1..Len(Origin) :
              Origin[q] = -1 =>
                  \E a \in 1..(Len(InLines) - 1) :
                      /\ FlushLine(a)
                      /\ BlockAt(a, q + 1 + Cardinality(RecentTwo(a)))

\* C9's case: two critical lines inside the message, each after a run of
\* more than two noise lines, so that each has a placeholder and two context
\* lines; no cutoff
C9_Witness ==
    /\ LongCall
    /\ summary.walk.exit = "end"
    /\ \E a, b \in 1..(Len(InLines) - 2) :
          /\ a < b
          /\ IsCriticalAt(a) /\ IsCriticalAt(b)
          /\ Cardinality(Gap(a)) > 2 /\ Cardinality(Gap(b)) > 2
          /\ Emitted(a) /\ Emitted(b)
    /\ Cardinality({q \in 1..Len(Origin) : Origin[q] = -1}) >= 2


\* C18: when the walk of a long message of two lines or more ends without
\* the length cutoff, the output ends with the pending placeholder (when its
\* count is positive), the lines of the context buffer and the final line
\* of the input, whatever the final line is.
C18_EndOfInputFlush ==
    (LongCall /\ Len(InLines) >= 2 /\ summary.walk.exit # "cutoff") =>
        BlockAt(Len(InLines) - 1, Len(Origin))

\* the placeholders of an output, in order
RECURSIVE PlaceholdersOf(_)
PlaceholdersOf(st) ==
    IF Len(st.origin) = 0 THEN <<>>
    ELSE (IF st.origin[1] = -1 THEN <<st.usefulLines[1]>> ELSE <<>>)
             \o PlaceholdersOf([st EXCEPT !.origin = Tail(@), !.usefulLines = Tail(@)])

\* the input without the lines after the first that are empty or
\* symbol-only once trimmed
RECURSIVE WithoutSkipped(_, _)
WithoutSkipped(lines, i) ==
    IF i > Len(lines) - 1 THEN <<>>
    ELSE (IF i >= 1 /\ Skipped(i) THEN <<>> ELSE <<lines[i + 1]>>)
             \o WithoutSkipped(lines, i + 1)

\* C19: in the output of a long message no line after the first that is
\* empty or symbol-only is emitted, and the placeholders are those of the
\* same message without such lines: they add nothing to any N.
C19_SkippedLinesNeverCounted ==
    LongCall =>
        /\ \A p \in 1..Len(Origin) : Origin[p] >= 1 => ~Skipped(Origin[p])
        /\ PlaceholdersOf(summary.walk)
              = PlaceholdersOf(processLongMessageWalk(WithoutSkipped(InLines, 0),
                                                      maxOutputLines))

\* the walk was stopped by the length check, at line CutoffLine
CutoffCall == LongCall /\ summary.walk.exit = "cutoff"
CutoffLine == summary.walk.stop

\* the last three physical lines that the walk had not passed when it
\* stopped, and those of them that are kept
TailLines ==
    {j \in (Len(InLines) - 3)..(Len(InLines) - 1) : j >= CutoffLine}
TailKept == {j \in TailLines : ~Skipped(j)}

\* the non-empty, non-symbol lines since the last emitted line that are not
\* among the tail lines
Unaccounted ==
    {j \in (PrevCritical(CutoffLine) + 1)..(Len(InLines) - 1) :
        ~Skipped(j) /\ j \notin TailLines}

\* the output ends with the kept tail lines, trimmed and in input order
EndsWithTail ==
    LET k == Cardinality(TailKept)
        L == Len(Origin)
    IN  /\ L - k >= 1
        /\ \A q \in (L - k + 1)..L :
              /\ Origin[q] \in TailKept
              /\ OutLines[q] = TrimSpace(InLines[Origin[q] + 1])
              /\ q > L - k + 1 => Origin[q - 1] < Origin[q]

\* the placeholder before the tail counts the unaccounted lines; there is
\* none when there is no such line
PlaceholderBeforeTail ==
    LET p == Len(Origin) - Cardinality(TailKept)
        N == Cardinality(Unaccounted)
    IN  IF N > 0
        THEN Origin[p] = -1 /\ OutLines[p] = Placeholder(N)
        ELSE Origin[p] # -1

\* C21: when the length check stops the walk, one placeholder is emitted
\* whose N is the number of non-empty, non-symbol lines that are neither
\* emitted nor among the tail lines, then the last three physical lines not
\* yet walked are appended in input order, each dropped if empty or
\* symbol-only; the last physical line, when kept, ends the output.
C21_CutoffPlaceholderAndTail ==
    CutoffCall =>
        /\ EndsWithTail
        /\ PlaceholderBeforeTail
        /\ ~Skipped(Len(InLines) - 1) => Origin[Len(Origin)] = Len(InLines) - 1

\* the positions of the output that hold an input line, not a placeholder
LinePositions == {p \in 1..Len(Origin) : Origin[p] # -1}

\* C22: in the output of a long message the lines that are not placeholders
\* are the trimmed input lines at strictly increasing input positions (none
\* twice, none out of order), and no two placeholders are adjacent.
C22_EmittedInInputOrder ==
    LongCall =>
        /\ Len(OutLines) = Len(Origin)
        /\ \A p \in LinePositions :
              /\ Origin[p] \in 0..(Len(InLines) - 1)
              /\ OutLines[p] = TrimSpace(InLines[Origin[p] + 1])
        /\ \A p, q \in LinePositions : p < q => Origin[p] < Origin[q]
        /\ \A p \in 1..(Len(Origin) - 1) : ~(Origin[p] = -1 /\ Origin[p + 1] = -1)
        /\ summary.out = Join(OutLines, "\n")

\* C22's case: the walk emits the third line from the end as a critical
\* line, after a placeholder and two context lines, and the length check
\* stops it at the next line: the tail is the last two lines only
C22_Witness ==
    /\ CutoffCall
    /\ CutoffLine = Len(InLines) - 2
    /\ IsCriticalAt(Len(InLines) - 3) /\ Emitted(Len(InLines) - 3)
    /\ Cardinality(Gap(Len(InLines) - 3)) > 2
    /\ Cardinality(TailKept) = 2
    /\ HasPlaceholder

(***************************************************************************)
(* One call of parseLogLine on a drawn line.                               *)
(***************************************************************************)
\* the values of "level" tried, in tenths: whole numbers in and out of the
\* table, numbers with a fraction, a negative number
LevelTenths == {0, 95, 100, 105, 200, 300, 400, 500, 509, 600, 605, 700, -100}

LevelValues ==
    {JNum(n) : n \in LevelTenths} \cup {JStr("50"), JNull, JBool(TRUE)}

MsgValues == {JStr("probe"), JStr(""), JNum(70), JNull}

ParseLines ==
    {[json |-> FALSE], [json |-> TRUE, doc |-> JNull],
     [json |-> TRUE, doc |-> JArr(<<JNum(500)>>)],
     [json |-> TRUE, doc |-> JObj([msg |-> JStr("no level")])]}
    \cup {[json |-> TRUE, doc |-> JObj([level |-> lv, msg |-> mv])] :
             lv \in LevelValues, mv \in MsgValues}
    \cup {[json |-> TRUE,
           doc |-> JObj([level |-> lv, msg |-> JStr("with extras"),
                         branch |-> JStr("main"), name |-> JStr("dropped")])] :
             lv \in LevelValues}

ParseInit ==
    /\ rawLine \in ParseLines
    /\ parsed = NotParsed
    /\ SumIdle
    /\ ScanIdle
    /\ RunIdle

CallParseLogLine ==
    /\ ~parsed.called
    /\ parsed' = [called |-> TRUE] @@ parseLogLine(rawLine)
    /\ UNCHANGED rawLine
    /\ UNCHANGED <<sumVars, scanVars, runVars>>

ParseNext == CallParseLogLine

ParseSpec == ParseInit /\ [][ParseNext]_vars

\* the line is a JSON object whose "level" is the number n (in tenths)
LevelIs(n10) ==
    /\ rawLine.json
    /\ rawLine.doc.t = "object"
    /\ "level" \in DOMAIN rawLine.doc.m
    /\ rawLine.doc.m["level"] = JNum(n10)

\* C1: the numeric levels 10, 20, 30, 40, 50, 60 give TRACE, DEBUG, INFO,
\* WARN, ERROR, FATAL, and every other level (absent, not a number, or a
\* number that is not exactly one of the six, 10.5 and 50.9 included) leaves
\* the level unset.
C1_LevelTable ==
    (parsed.called /\ ~parsed.err) =>
        /\ LevelIs(100) => parsed.entry.Level = "TRACE"
        /\ LevelIs(200) => parsed.entry.Level = "DEBUG"
        /\ LevelIs(300) => parsed.entry.Level = "INFO"
        /\ LevelIs(400) => parsed.entry.Level = "WARN"
        /\ LevelIs(500) => parsed.entry.Level = "ERROR"
        /\ LevelIs(600) => parsed.entry.Level = "FATAL"
        /\ (\A n \in {100, 200, 300, 400, 500, 600} : ~LevelIs(n))
              => parsed.entry.Level = ""


(***************************************************************************)
(* Calls of Error / Warning / Info on one SimpleReport, in any order.      *)
(***************************************************************************)
\* the (msg, fields) pairs the calls are made with
ReportArgs ==
    {[msg |-> "PR limit reached - skipping PR creation", fields |-> <<>>],
     [msg |-> "Found renovate config errors",
      fields |-> <<JStr("Errors"), JStr("bad"), JStr("Message"), JNum(15)>>]}

ReportInit == SumIdle /\ ParseIdle /\ ScanIdle /\ RunIdle

CallError ==
    /\ Len(report.log) < MaxReportCalls
    /\ \E a \in ReportArgs : report' = ReportError(report, a.msg, a.fields)

CallWarning ==
    /\ Len(report.log) < MaxReportCalls
    /\ \E a \in ReportArgs : report' = ReportWarning(report, a.msg, a.fields)

CallInfo ==
    /\ Len(report.log) < MaxReportCalls
    /\ \E a \in ReportArgs : report' = ReportInfo(report, a.msg, a.fields)

\* the check function of the "Reached PR limit" selector, once per such line
CallPrLimitReached ==
    /\ Len(report.log) < MaxReportCalls
    /\ report' = prLimitReached([Level |-> "INFO",
                                 Msg |-> "Reached PR limit - skipping PR creation",
                                 Extras |-> <<>>], report).report

ReportNext ==
    /\ CallError \/ CallWarning \/ CallInfo \/ CallPrLimitReached
    /\ UNCHANGED <<pc, lineCount, errorsMap, fatalMap, ctxDone, result, consumed, calls, cancelledAt>>
    /\ UNCHANGED <<sumVars, parseVars, runVars>>

ReportSpec == ReportInit /\ [][ReportNext]_vars

\* the strings formatted by the calls of one method, in call order
RECURSIVE FormattedBy(_, _)
FormattedBy(log, method) ==
    IF Len(log) = 0 THEN <<>>
    ELSE (IF log[1].method = method THEN <<log[1].formatted>> ELSE <<>>)
             \o FormattedBy(Tail(log), method)

\* seq without the later occurrences of a string
FirstOccurrences(seq) ==
    LET keep == {k \in 1..Len(seq) : \A j \in 1..(k - 1) : seq[j] # seq[k]}
        nth[i \in 1..Cardinality(keep)] ==
            CHOOSE k \in keep : Cardinality({j \in keep : j < k}) = i - 1
    IN  [i \in 1..Cardinality(keep) |-> seq[nth[i]]]

Occurrences(x, seq) == Cardinality({k \in 1..Len(seq) : seq[k] = x})

\* C3: after any sequence of calls, Warnings holds each string formatted by
\* a Warning call once, in first-seen order, while Errors and Infos hold one
\* entry per call, equal strings included; "PR limit reached - skipping PR
\* creation" is in Warnings once however often prLimitReached ran.
C3_WarningsDedupedOthersNot ==
    /\ report.Warnings = FirstOccurrences(FormattedBy(report.log, "Warning"))
    /\ \A a, b \in 1..Len(report.Warnings) :
          a # b => report.Warnings[a] # report.Warnings[b]
    /\ report.Errors = FormattedBy(report.log, "Error")
    /\ report.Infos = FormattedBy(report.log, "Info")
    /\ Occurrences("PR limit reached - skipping PR creation",
                   FormattedBy(report.log, "Warning")) >= 1
          => Occurrences("PR limit reached - skipping PR creation", report.Warnings) = 1

\* C3's case: the PR-limit warning made three times, and an Info made twice
\* with the same string
C3_Witness ==
    /\ Occurrences("PR limit reached - skipping PR creation",
                   FormattedBy(report.log, "Warning")) = 3
    /\ report.Warnings = <<"PR limit reached - skipping PR creation">>
    /\ Len(report.Infos) = 2
    /\ report.Infos[1] = report.Infos[2]

(***************************************************************************)
(* Properties of the scan, checked under Spec.                             *)
(***************************************************************************)
\* what parseLogLine returns for each line of LogLines, and the message
\* buildErrorMessage formats for it, computed once
ParsedLine == [l \in LogLines |-> parseLogLine(l)]
MessageOfLine ==
    [l \in LogLines |->
        IF ParsedLine[l].err THEN "" ELSE buildErrorMessage(ParsedLine[l].entry)]

\* the record of the k-th processed line, when it parsed
ParsedOk(k) == ~ParsedLine[consumed[k]].err
Entry(k) == ParsedLine[consumed[k]].entry

\* C2: on every parsed record, the check function of every selector that
\* the message contains is invoked exactly once and no other is invoked.
C2_MatchAllDispatch ==
    \A k \in 1..Len(consumed) :
        ParsedOk(k) =>
            \A sel \in DOMAIN Selectors :
                Occurrences(Selectors[sel], calls[k])
                    = IF Contains(Entry(k).Msg, sel) THEN 1 ELSE 0

\* C10: no check function panics, whatever the extras of the record are.
C10_ChecksNeverPanic == pc # "panicked"

\* the processed records of a level, and their formatted messages
RecordsOf(level) == {k \in 1..Len(consumed) : ParsedOk(k) /\ Entry(k).Level = level}
MessagesOf(level) == {MessageOfLine[consumed[k]] : k \in RecordsOf(level)}
CountOf(level, m) ==
    Cardinality({k \in RecordsOf(level) : MessageOfLine[consumed[k]] = m})

RECURSIVE Concatenated(_, _)
Concatenated(level, order) ==
    IF Len(order) = 0 THEN ""
    ELSE (IF CountOf(level, order[1]) > 1
          THEN IntToStr(CountOf(level, order[1])) \o "x " ELSE "")
             \o order[1] \o Concatenated(level, Tail(order))

\* "<N> <LEVEL>: " and the distinct messages, "" when there is no record
Rendering(level, order) ==
    IF RecordsOf(level) = {} THEN ""
    ELSE IntToStr(Cardinality(RecordsOf(level))) \o " " \o level \o ": "
             \o Concatenated(level, order)

Renderings ==
    {Rendering("ERROR", eo) \o Rendering("FATAL", fo) :
        eo \in Orders(MessagesOf("ERROR")), fo \in Orders(MessagesOf("FATAL"))}

Returned == pc = "returned" /\ result.err = ""

\* C4 as stated: the digest is the ERROR rendering followed by the FATAL
\* rendering.
C4_DigestIsRenderings == Returned => result.digest \in Renderings

\* C4 amended: the digest is "Mintmaker finished with " followed by the
\* ERROR rendering followed by the FATAL rendering when there is a record of
\* either level, and the empty string when there is none.
C4_DigestIsPrefixedRenderings ==
    Returned =>
        IF RecordsOf("ERROR") = {} /\ RecordsOf("FATAL") = {}
        THEN result.digest = ""
        ELSE \E r \in Renderings : result.digest = "Mintmaker finished with " \o r

\* C4's case: one ERROR "network timeout" and two FATAL "disk full"
C4_Witness ==
    /\ Returned
    /\ Cardinality(RecordsOf("ERROR")) = 1
    /\ Cardinality(RecordsOf("FATAL")) = 2
    /\ result.digest
          = "Mintmaker finished with 1 ERROR: network timeout\n2 FATAL: 2x disk full\n"

\* C5: the digest a scan returns is empty exactly when no record it
\* processed had the level ERROR or FATAL.
C5_EmptyDigestIffNoSevereRecord ==
    pc = "returned" =>
        (result.digest = "" <=> (RecordsOf("ERROR") = {} /\ RecordsOf("FATAL") = {}))

\* C5's case: records of other levels and of no level were processed and
\* left findings in the report, and the digest is empty
C5_Witness ==
    /\ pc = "returned"
    /\ result.digest = ""
    /\ RecordsOf("WARN") # {}
    /\ RecordsOf("") # {}
    /\ Len(report.Errors) >= 2


(***************************************************************************)
(* ProcessLogFile on a log file long enough for the cancellation check of  *)
(* line 311 to come round again.                                           *)
(***************************************************************************)
\* what the i-th line of the file can be: the first line is not JSON, an
\* ERROR record or the PR-limit record; the fiftieth is an INFO record no
\* selector matches or an ERROR record with the PR-limit message; elsewhere
\* lines that are not JSON alternate with such INFO records
StreamLines(i) ==
    IF i = 1
    THEN {[json |-> FALSE],
          Line([level |-> JNum(500), msg |-> JStr("network timeout")]),
          Line([level |-> JNum(300), msg |-> JStr("Reached PR limit - skipping PR creation")])}
    ELSE IF i = 50
    THEN {Line([level |-> JNum(300), msg |-> JStr("Repository finished")]),
          Line([level |-> JNum(500), msg |-> JStr("Reached PR limit - skipping PR creation")])}
    ELSE IF i % 2 = 0
         THEN {[json |-> FALSE]}
         ELSE {Line([level |-> JNum(300), msg |-> JStr("Repository finished")])}

ScanStreamLine == Len(consumed) < MaxStreamLines /\ ScanLineOf(StreamLines(lineCount + 1))

ReturnCancelledStream == ReturnCancelledIf(Len(consumed) < MaxStreamLines)

\* the signal, with the number of lines read so far kept in cancelledAt
CancelStream == CancelContextMarked(lineCount)

StreamNext ==
    OpenFile \/ CancelStream \/ ReturnCancelledStream \/ ScanStreamLine \/ EndOfInput

StreamSpec == ScanInit /\ [][StreamNext]_vars

\* something has been found: a tally or a list of the report is not empty
HasFindings ==
    \/ DOMAIN errorsMap # {} \/ DOMAIN fatalMap # {}
    \/ report.Errors # <<>> \/ report.Warnings # <<>> \/ report.Infos # <<>>

Interrupted == pc = "returned" /\ result.via \in {"cancel", "readerr"}

InterruptedResult ==
    Interrupted =>
        IF HasFindings
        THEN result.err = "" /\ result.digest \in Digests
        ELSE result.err # "" /\ result.digest = ""

ReturnKeepsFindings ==
    pc' = "returned" =>
        /\ report' = report
        /\ errorsMap' = errorsMap
        /\ fatalMap' = fatalMap

\* C11: a scan interrupted by cancellation or by a read error returns, when
\* there is a finding, the digest of the tallies and a nil error, and
\* otherwise an empty digest and an error; the return leaves the report and
\* the tallies as they were.
C11_PartialResultOrError == []InterruptedResult /\ [][ReturnKeepsFindings]_vars

\* C11's case: cancelled at the check before the 101st line, after an ERROR
\* record in the first hundred
C11_Witness ==
    /\ Interrupted
    /\ result.via = "cancel"
    /\ lineCount = 100
    /\ result.err = ""
    /\ result.digest = "Mintmaker finished with 1 ERROR: network timeout\n"


CancelledReturn ==
    (pc = "returned" /\ result.via = "cancel") =>
        ctxDone /\ lineCount % 100 = 0

FurtherLines == cancelledAt >= 0 => lineCount - cancelledAt <= 99

\* every line read so far has had its iteration
LinesComplete == Len(consumed) = lineCount /\ Len(calls) = lineCount

\* an iteration on a record updates the tally of its level and invokes the
\* check of every selector its message contains, cancelled or not
CompleteStep ==
    (Len(consumed') = Len(consumed) + 1 /\ consumed'[Len(consumed')].json) =>
        LET entry == parseLogLine(consumed'[Len(consumed')]).entry
            sels  == {sel \in DOMAIN Selectors : Contains(entry.Msg, sel)}
        IN  /\ entry.Level = "ERROR" => DOMAIN errorsMap' # {} /\ errorsMap' # errorsMap
            /\ \A sel \in sels :
                  \E j \in 1..Len(calls'[Len(calls')]) :
                      calls'[Len(calls')][j] = Selectors[sel]

\* C20: a scan returns for cancellation only with ctx done and a count of
\* lines read that is a multiple of 100; every line read has had its whole
\* iteration, tally and checks, whether ctx was done or not; and no more
\* than 99 lines are processed after ctx is cancelled.
C20_CancellationEveryHundredLines ==
    [](CancelledReturn /\ FurtherLines /\ LinesComplete) /\ [][CompleteStep]_vars

\* C20's case: ctx cancelled after the first line, 99 more lines processed,
\* the fiftieth with its tally and its check, and the scan returned at the
\* check before the 101st
C20_Witness ==
    /\ pc = "returned" /\ result.via = "cancel"
    /\ cancelledAt = 1
    /\ lineCount = 100
    /\ calls[50] = <<"prLimitReached">>
    /\ DOMAIN errorsMap # {}
    /\ report.Warnings = <<"PR limit reached - skipping PR creation">>

(***************************************************************************)
(* More properties of the scan, checked under Spec.                        *)
(***************************************************************************)
\* this step is an iteration of the loop, and LastLine' is its line
LineStep == Len(consumed') = Len(consumed) + 1
LastLine == consumed[Len(consumed)]

\* the text of the line is not a JSON document
NotJSON(line) == ~line.json

SkipStep ==
    (LineStep /\ NotJSON(LastLine')) =>
        /\ errorsMap' = errorsMap
        /\ fatalMap' = fatalMap
        /\ report' = report
        /\ result' = result
        /\ pc' = "scanning"

NoValidLine ==
    (pc = "returned" /\ result.via = "eof"
        /\ \A k \in 1..Len(consumed) : NotJSON(consumed[k])) =>
        /\ result.digest = "" /\ result.err = ""
        /\ report.Errors = <<>> /\ report.Warnings = <<>> /\ report.Infos = <<>>

\* C12: an iteration on a line that is not JSON changes no tally and no list
\* of the report, returns nothing and leaves the loop running; a file with no
\* valid line gives an empty digest, an empty report and a nil error.
C12_UnparseableLinesSkipped == []NoValidLine /\ [][SkipStep]_vars

\* C12's case: a line that is not JSON, then an ERROR record, then a line
\* that is not JSON, and the digest counts the one record
C12_Witness ==
    /\ pc = "returned" /\ result.via = "eof"
    /\ Len(consumed) = 3
    /\ NotJSON(consumed[1]) /\ ~NotJSON(consumed[2]) /\ NotJSON(consumed[3])
    /\ result.err = ""
    /\ result.digest = "Mintmaker finished with 1 ERROR: network timeout\n"
    /\ report.Errors = <<>> /\ report.Warnings = <<>> /\ report.Infos = <<>>


\* the selectors the message of an entry contains
Matching(entry) == {sel \in DOMAIN Selectors : Contains(entry.Msg, sel)}

UnsetLevelStep ==
    (LineStep /\ ~parseLogLine(LastLine').err /\ parseLogLine(LastLine').entry.Level = "") =>
        /\ errorsMap' = errorsMap
        /\ fatalMap' = fatalMap
        /\ \A sel \in DOMAIN Selectors :
              Occurrences(Selectors[sel], calls'[Len(calls')])
                  = IF sel \in Matching(parseLogLine(LastLine').entry) THEN 1 ELSE 0

\* C15: an iteration on a record of unset level invokes the check function
\* of every selector its message contains, and leaves both tallies as they
\* were.
C15_UnsetLevelCheckedNotTallied == [][UnsetLevelStep]_vars

\* C15's case: the only record processed has no level and a message with two
\* selectors; both checks ran and left errors, and the tallies are empty
C15_Witness ==
    /\ Len(consumed) = 1
    /\ ~parseLogLine(consumed[1]).err
    /\ parseLogLine(consumed[1]).entry.Level = ""
    /\ Len(calls[1]) = 2
    /\ Len(report.Errors) >= 2
    /\ DOMAIN errorsMap = {} /\ DOMAIN fatalMap = {}

IsPrefix(a, b) == Len(a) <= Len(b) /\ SubSeq(b, 1, Len(a)) = a

AppendOnlyStep ==
    /\ IsPrefix(report.Errors, report'.Errors)
    /\ IsPrefix(report.Warnings, report'.Warnings)
    /\ IsPrefix(report.Infos, report'.Infos)

\* C16: every step of a scan leaves each list of the report as a prefix of
\* what it becomes: entries are added at the end only, so the entries of a
\* line come after those of the lines before it and are never removed,
\* moved or changed.
C16_ListsAppendOnly == [][AppendOnlyStep]_vars

\* C16's case: three lines have left entries in Errors, and a warning is kept
C16_Witness ==
    /\ Len(consumed) = 3
    /\ \A k \in 1..3 : "rawExecError" \in {calls[k][j] : j \in 1..Len(calls[k])}
                       \/ "renovateConfigErrors" \in {calls[k][j] : j \in 1..Len(calls[k])}
    /\ Len(report.Errors) >= 3
    /\ report.Errors[1] # report.Errors[Len(report.Errors)]

\* the reports a scan of these lines can end with, starting from report r,
\* over the orders in which the range of line 340 can yield the selectors
RECURSIVE ReportsAfter(_, _)
ReportsAfter(lines, r) ==
    IF Len(lines) = 0 THEN {r}
    ELSE LET p == parseLogLine(lines[1])
         IN  IF p.err THEN ReportsAfter(Tail(lines), r)
             ELSE UNION {LET run == RunChecks(order, p.entry,
                                        [report |-> r, called |-> <<>>, panicked |-> FALSE])
                         IN  IF run.panicked THEN {} ELSE ReportsAfter(Tail(lines), run.report) :
                         order \in Orders(Matching(p.entry))}

\* C17: every scan of the lines this scan has processed ends with the same
\* three lists as this one.
C17_SameReportOnRerun ==
    pc # "panicked" =>
        \A r \in ReportsAfter(consumed, EmptyReport) :
            /\ r.Errors = report.Errors
            /\ r.Warnings = report.Warnings
            /\ r.Infos = report.Infos

\* C23: the digest a scan returns is the only digest its tallies can give:
\* whatever the order in which the ranges of line 427 yield the messages of
\* a tally, a scan of the same lines returns the same string.
C23_SameDigestOnRerun ==
    Returned => \A d \in Digests : d = result.digest

(***************************************************************************)
(* run (cmd/log-analyzer/main.go): environment, ProcessLogFile, the Kite   *)
(* client and its health check, the custom webhooks, the final webhook.    *)
(* trace records the call of ProcessLogFile and every HTTP request, with   *)
(* whether it succeeded.                                                   *)
(***************************************************************************)
Envs == [NAMESPACE : {"", "ns"}, KITE_API_URL : {"", "http://kite", ":kite"}]

\* url.Parse rejects a URL whose first path segment holds a colon before
\* any scheme ("missing protocol scheme")
UrlParseFails(rawURL) == HasPrefix(rawURL, ":")

\* what ProcessLogFile gives run: an error with nothing else, or a digest and
\* a report (no check function writes Infos), or a panic
ScanFailures == {"log file not found", "failed to open log file",
                 "log processing cancelled", "error reading log file"}
ScanOutcomes ==
    {[panicked |-> FALSE, digest |-> "", err |-> e, Errors |-> <<>>, Warnings |-> <<>>] :
        e \in ScanFailures}
    \cup {[panicked |-> FALSE, digest |-> d, err |-> "", Errors |-> es, Warnings |-> ws] :
            d \in {"", "Mintmaker finished with 1 ERROR: network timeout\n"},
            es \in {<<>>, <<"Found renovate config errors | Errors: \nConfig: bad">>},
            ws \in {<<>>, <<"PR limit reached - skipping PR creation">>}}
    \cup {[panicked |-> TRUE, digest |-> "", err |-> "", Errors |-> <<>>, Warnings |-> <<>>]}

NoBody == [none |-> TRUE]
Request(name, ok, body) == [name |-> name, ok |-> ok, body |-> body]

RunInit ==
    /\ env \in Envs
    /\ runPc = "env"
    /\ trace = <<>>
    /\ runErr = ""
    /\ SumIdle /\ ParseIdle /\ ScanIdle

\* lines 162-164
CheckEnv ==
    /\ runPc = "env"
    /\ IF env.NAMESPACE = "" \/ env.KITE_API_URL = ""
       THEN runPc' = "done" /\ runErr' = "missing required environment variables"
       ELSE runPc' = "process" /\ UNCHANGED runErr
    /\ UNCHANGED <<env, trace>>
    /\ UNCHANGED <<sumVars, parseVars, scanVars>>

\* lines 177-181
CallProcessLogFile ==
    /\ runPc = "process"
    /\ \E o \in ScanOutcomes :
          /\ pc' = IF o.panicked THEN "panicked" ELSE "returned"
          /\ result' = [digest |-> o.digest, err |-> o.err, via |-> ""]
          /\ report' = [report EXCEPT !.Errors = o.Errors, !.Warnings = o.Warnings]
          /\ runPc' = IF o.panicked THEN "crashed"
                      ELSE IF o.err # "" THEN "done" ELSE "client"
          /\ runErr' = IF o.err # "" THEN "failed to process logs" ELSE ""
    /\ trace' = Append(trace, Request("ProcessLogFile", TRUE, NoBody))
    /\ UNCHANGED <<env, lineCount, errorsMap, fatalMap, ctxDone, consumed, calls, cancelledAt>>
    /\ UNCHANGED <<sumVars, parseVars>>

\* lines 198-201 and NewClient
CreateClient ==
    /\ runPc = "client"
    /\ IF UrlParseFails(env.KITE_API_URL)
       THEN runPc' = "done" /\ runErr' = "failed to create Kite client"
       ELSE runPc' = "health" /\ UNCHANGED runErr
    /\ UNCHANGED <<env, trace>>
    /\ UNCHANGED <<sumVars, parseVars, scanVars>>

\* lines 203-206 with the health check's error ignored
AfterHealth_ErrorIgnored(ok) == "custom error"

\* lines 203-206: where run goes after GetKiteStatus
AfterHealth(ok) == IF ok THEN "custom error" ELSE "done"

\* line 203 and GetKiteStatus
HealthCheck ==
    /\ runPc = "health"
    /\ \E ok \in BOOLEAN :
          /\ trace' = Append(trace, Request("health", ok, NoBody))
          /\ runPc' = AfterHealth(ok)
          /\ runErr' = IF ok THEN "" ELSE "request for Kite API status failed"
    /\ UNCHANGED env
    /\ UNCHANGED <<sumVars, parseVars, scanVars>>

\* one `if len(logs) > 0` of sendCustomWebhooks: the request is made when the
\* list is not empty, and its error is only logged
SendCustom(at, issueType, logs, next) ==
    /\ runPc = at
    /\ IF Len(logs) > 0
       THEN \E ok \in BOOLEAN :
               trace' = Append(trace, Request("mintmaker-custom", ok,
                                              [type |-> issueType, logs |-> logs]))
       ELSE UNCHANGED trace
    /\ runPc' = next
    /\ UNCHANGED <<env, runErr>>
    /\ UNCHANGED <<sumVars, parseVars, scanVars>>

\* lines 241-247
SendCustomError == SendCustom("custom error", "error", report.Errors, "custom warning")
\* lines 248-254
SendCustomWarning == SendCustom("custom warning", "warning", report.Warnings, "custom info")
\* lines 255-261
SendCustomInfo == SendCustom("custom info", "info", report.Infos, "final")

\* the final webhook chosen by the report's errors
FinalWebhook_ByReportErrors(processedFailReason) ==
    IF Len(report.Errors) = 0
    THEN Request("pipeline-success", TRUE, NoBody)
    ELSE Request("pipeline-failure", TRUE, [failureReason |-> processedFailReason])

\* lines 215-226: the final webhook and its payload
FinalWebhook(processedFailReason) ==
    IF processedFailReason = ""
    THEN Request("pipeline-success", TRUE, NoBody)
    ELSE Request("pipeline-failure", TRUE, [failureReason |-> processedFailReason])

\* lines 215-229
SendFinalWebhook ==
    /\ runPc = "final"
    /\ \E ok \in BOOLEAN :
          LET req == FinalWebhook(result.digest)
          IN  /\ trace' = Append(trace, [req EXCEPT !.ok = ok])
              /\ runErr' = IF ok THEN ""
                           ELSE IF req.name = "pipeline-success"
                                THEN "failed to send success webhook"
                                ELSE "failed to send failure webhook"
    /\ runPc' = "done"
    /\ UNCHANGED env
    /\ UNCHANGED <<sumVars, parseVars, scanVars>>

RunNext ==
    \/ CheckEnv \/ CallProcessLogFile \/ CreateClient \/ HealthCheck
    \/ SendCustomError \/ SendCustomWarning \/ SendCustomInfo \/ SendFinalWebhook

RunSpec == RunInit /\ [][RunNext]_vars

(***************************************************************************)
(* Properties of run, checked under RunSpec.                               *)
(***************************************************************************)
Webhooks == {"mintmaker-custom", "pipeline-success", "pipeline-failure"}
FinalWebhooks == {"pipeline-success", "pipeline-failure"}

At(names) == {i \in 1..Len(trace) : trace[i].name \in names}
HealthPassed == \E i \in At({"health"}) : trace[i].ok
CustomFailed == \E i \in At({"mintmaker-custom"}) : ~trace[i].ok

\* C13: a run that got past the health check ends with exactly one final
\* webhook attempted, after every custom webhook: pipeline-success when the
\* digest is empty, pipeline-failure with the digest as failure reason when
\* it is not, whether or not a custom webhook failed; no run attempts two.
C13_ExactlyOneFinalWebhook ==
    /\ Cardinality(At(FinalWebhooks)) <= 1
    /\ (runPc = "done" /\ HealthPassed) =>
          /\ At(FinalWebhooks) = {Len(trace)}
          /\ trace[Len(trace)].name = "pipeline-success" <=> result.digest = ""
          /\ trace[Len(trace)].name = "pipeline-failure"
                => trace[Len(trace)].body = [failureReason |-> result.digest]

\* C13's case: both custom webhooks failed and pipeline-failure was still
\* attempted with the digest
C13_Witness ==
    /\ runPc = "done"
    /\ Cardinality({i \in At({"mintmaker-custom"}) : ~trace[i].ok}) = 2
    /\ trace[Len(trace)].name = "pipeline-failure"
    /\ trace[Len(trace)].body
          = [failureReason |-> "Mintmaker finished with 1 ERROR: network timeout\n"]

\* C14: the health check is requested after ProcessLogFile has returned,
\* every webhook request comes after a health check that succeeded, and a
\* run that failed in ProcessLogFile, in NewClient or in the health check
\* has made no webhook request.
C14_HealthCheckBeforeWebhooks ==
    /\ \A i \in At({"health"}) : \E k \in At({"ProcessLogFile"}) : k < i
    /\ \A i \in At(Webhooks) : \E j \in At({"health"}) : j < i /\ trace[j].ok
    /\ runErr \in {"failed to process logs", "failed to create Kite client",
                   "request for Kite API status failed"}
          => runPc = "done" /\ At(Webhooks) = {}
    /\ runPc = "crashed" => At(Webhooks) = {}

\* C14's case: the report has an error and a warning to send, the health
\* check failed, and run ended without a webhook
C14_Witness ==
    /\ runPc = "done"
    /\ runErr = "request for Kite API status failed"
    /\ report.Errors # <<>> /\ report.Warnings # <<>>
    /\ Len(trace) = 2
    /\ trace[2] = Request("health", FALSE, NoBody)

=============================================================================
